---- MODULE Spec2Model ----
(***************************************************************************)
(* State-machine model of coolbox.core.frame.base.FrameBase: the Frame     *)
(* composition algebra (__add__, __mul__), the mutation helpers and        *)
(* fetch_data.  Python objects live in a heap: a frame object holds        *)
(* REFERENCES to its properties dict and to its ordered track mapping, and *)
(* copy(self) is Python's shallow copy, which duplicates the frame object  *)
(* and shares what its attributes refer to.                                *)
(***************************************************************************)
EXTENDS Integers, Sequences, FiniteSets, TLC

\* ------------------------------------------------------------------ bounds
MaxFrames == 4      \* frame objects ever allocated
MaxTracks == 3      \* entries in one track mapping
MaxCovs == 2        \* coverages attached to one track

\* ------------------------------------------------------------------ values
\* The Track objects of the doctests: XAxis() and BigWig(...).
Tracks == {"xaxis", "bigwig"}
\* highlight, and the two HighLights of cov_stack, of the doctests.
Covs == {"hl1"}
CoverageStacks == {<<"hl2", "hl3">>}
FeatureKeys == {"color"}
FrameFeatureKeys == {"title"}
Values == {"#66ccff", "#ff9c9c"}

NoneValue == [type |-> "None"]
GenomeRanges == {[type |-> "GenomeRange", chrom |-> "chr1", start |-> 1000, end |-> 2000]}
RangeStrings == {[type |-> "str", text |-> "chrX:3000000-5000000"]}

\* GenomeRange(text): "chrom:start-end" -> GenomeRange.
ParseRange(s) ==
    CASE s.text = "chrX:3000000-5000000" ->
           [type |-> "GenomeRange", chrom |-> "chrX", start |-> 3000000, end |-> 5000000]
      [] s.text = "chr1:1000-2000" ->
           [type |-> "GenomeRange", chrom |-> "chr1", start |-> 1000, end |-> 2000]

\* Operands of the two operators, tagged with their runtime class.
TrackOperands == {[kind |-> "Track", track |-> t] : t \in Tracks}
FrameFeatureOperands ==
    {[kind |-> "FrameFeature", key |-> k, value |-> v] : k \in FrameFeatureKeys, v \in Values}
FeatureOperands ==
    {[kind |-> "Feature", key |-> k, value |-> v] : k \in FeatureKeys, v \in Values}
CoverageOperands == {[kind |-> "Coverage", cov |-> c] : c \in Covs}
CoverageStackOperands == {[kind |-> "CoverageStack", coverages |-> s] : s \in CoverageStacks}
WidgetsPanelOperands == {[kind |-> "WidgetsPanel", ref |-> "hg19", type |-> "simple"]}
OtherOperands == {[kind |-> "int", value |-> 1]}

\* ------------------------------------------------------------------ state
VARIABLES
    frames,       \* heap of frame objects: <<[properties, tracks, current_range]>>
    dicts,        \* heap of properties dicts, indexed by frames[f].properties
    maps,         \* heap of ordered track mappings, indexed by frames[f].tracks
    trackProps,   \* track.properties of every Track object
    trackCovs,    \* track.coverages of every Track object
    last          \* the most recent call: operator, operands, outcome

vars == <<frames, dicts, maps, trackProps, trackCovs, last>>

\* ------------------------------------------------------------------ dicts
EmptyDict == [x \in {} |-> TRUE]

\* d[k] = v
SetItem(d, k, v) == [x \in (DOMAIN d) \cup {k} |-> IF x = k THEN v ELSE d[x]]

\* d.update(e)
Update(d, e) ==
    [x \in (DOMAIN d) \cup (DOMAIN e) |-> IF x \in DOMAIN e THEN e[x] ELSE d[x]]

\* ------------------------------------------------------------------ frames
FrameIds == DOMAIN frames

\* self.tracks / self.properties of frame object f
TracksOf(f) == maps[frames[f].tracks]
PropertiesOf(f) == dicts[frames[f].properties]

\* list(frame.tracks.values()) and list(frame.tracks.keys())
TrackValues(m) == [i \in 1..Len(m) |-> m[i].track]
TrackNames(m) == [i \in 1..Len(m) |-> m[i].name]

\* copy(self): a new frame object whose attributes refer to the same objects.
Copy(f) == frames[f]

\* add_track(track): insert at the end under a fresh generated name track_N.
AddTrack(m, t) == Append(m, [name |-> Len(m) + 1, track |-> t])

Init ==
    /\ frames = <<>>
    /\ dicts = <<>>
    /\ maps = <<>>
    /\ trackProps = [t \in Tracks |->
                       IF t = "bigwig" THEN [min_value |-> 0, max_value |-> 1]
                       ELSE EmptyDict]
    /\ trackCovs = [t \in Tracks |-> <<>>]
    /\ last = [op |-> "none"]

\* Frame(genome_range=...): FrameBase.__init__
NewFrame(gr) ==
    /\ Len(frames) < MaxFrames
    /\ LET range == IF gr.type = "str" THEN ParseRange(gr) ELSE gr
       IN frames' = Append(frames, [properties |-> Len(dicts) + 1,
                                    tracks |-> Len(maps) + 1,
                                    current_range |-> range])
    /\ dicts' = Append(dicts, EmptyDict)
    /\ maps' = Append(maps, <<>>)
    /\ last' = [op |-> "init", left |-> 0, arg |-> [kind |-> gr.type, range |-> gr],
                status |-> "ok", ret |-> [type |-> "Frame", id |-> Len(frames) + 1]]
    /\ UNCHANGED <<trackProps, trackCovs>>

\* ------------------------------------------------------------------ tracks
\* LastTrack taking the first value of the mapping: list(...)[0]
FirstTrack(m) == m[1].track

\* list(result.tracks.values())[-1]
LastTrack(m) == m[Len(m)].track

\* track.append_coverage(cov)
AppendCoverage(covs, c) == Append(covs, c)

\* track.pile_coverages(coverages, pos='top')
PileCoverages(covs, stack) == covs \o stack

\* The outcome of a call, as kept in `last`.
Returned(op, L, other, ret) ==
    [op |-> op, left |-> L, arg |-> other, status |-> "ok", ret |-> ret]
Raised(op, L, other, exc) ==
    [op |-> op, arg |-> [kind |-> other.kind], status |-> exc, ret |-> NoneValue]
FrameRef(id) == [type |-> "Frame", id |-> id]

\* ------------------------------------------------------------------ __add__
\* AddDispatch testing for Feature first and taking a FrameFeature for one
AddDispatchFeatureFirst(kind) ==
    CASE kind = "Track" -> "Track"
      [] kind = "Frame" -> "Frame"
      [] kind \in {"Feature", "FrameFeature"} -> "Feature"
      [] kind = "Coverage" -> "Coverage"
      [] kind = "CoverageStack" -> "CoverageStack"
      [] kind = "WidgetsPanel" -> "WidgetsPanel"
      [] OTHER -> "TypeError"

\* The isinstance chain of __add__: the branch an operand of class `kind` takes.
AddDispatch(kind) ==
    CASE kind = "Track" -> "Track"
      [] kind = "Frame" -> "Frame"
      [] kind = "FrameFeature" -> "FrameFeature"
      [] kind = "Feature" -> "Feature"
      [] kind = "Coverage" -> "Coverage"
      [] kind = "CoverageStack" -> "CoverageStack"
      [] kind = "WidgetsPanel" -> "WidgetsPanel"
      [] OTHER -> "TypeError"

\* TrackBranch putting the new track in front of the ones already there
TrackBranchAtHead(m, t) == <<[name |-> Len(m) + 1, track |-> t]>> \o m

\* Frame + Track: result.add_track(other)
TrackBranch(m, t) == AddTrack(m, t)

AddTrackOperand(L, other) ==
    /\ Len(frames) < MaxFrames
    /\ Len(TracksOf(L)) < MaxTracks
    /\ LET result == Copy(L)
       IN /\ frames' = Append(frames, result)
          /\ maps' = [maps EXCEPT ![result.tracks] = TrackBranch(@, other.track)]
    /\ last' = Returned("add", L, other, FrameRef(Len(frames) + 1))
    /\ UNCHANGED <<dicts, trackProps, trackCovs>>

\* Frame + Frame: the loop over other.tracks.values() adding to result.tracks.
\* When both frames refer to the same mapping the loop mutates what it
\* iterates: one track is added and the next step of the iterator raises
\* RuntimeError (mutated during iteration).
\* AddAll entering the tracks under the names they had in the other frame
AddAllKeepingNames(m, ts) == m \o [i \in 1..Len(ts) |-> [name |-> i, track |-> ts[i]]]

RECURSIVE AddAll(_, _)
AddAll(m, ts) == IF ts = <<>> THEN m ELSE AddAll(AddTrack(m, Head(ts)), Tail(ts))

AddFrameOperand(L, other) ==
    LET result == Copy(L)
        R == frames[other.frame]
    IN IF R.tracks = result.tracks /\ maps[R.tracks] # <<>>
       THEN /\ Len(maps[R.tracks]) < MaxTracks
            /\ maps' = [maps EXCEPT ![result.tracks] = AddTrack(@, maps[R.tracks][1].track)]
            /\ last' = Raised("add", L, other, "RuntimeError")
            /\ UNCHANGED <<frames, dicts, trackProps, trackCovs>>
       ELSE /\ Len(frames) < MaxFrames
            /\ Len(maps[result.tracks]) + Len(maps[R.tracks]) <= MaxTracks
            /\ frames' = Append(frames, result)
            /\ maps' = [maps EXCEPT ![result.tracks] = AddAll(@, TrackValues(maps[R.tracks]))]
            /\ dicts' = [dicts EXCEPT ![result.properties] = Update(@, dicts[R.properties])]
            /\ last' = Returned("add", L, other, FrameRef(Len(frames) + 1))
            /\ UNCHANGED <<trackProps, trackCovs>>

\* Frame + FrameFeature: result.properties[other.key] = other.value
AddFrameFeatureOperand(L, other) ==
    /\ Len(frames) < MaxFrames
    /\ LET result == Copy(L)
       IN /\ frames' = Append(frames, result)
          /\ dicts' = [dicts EXCEPT ![result.properties] = SetItem(@, other.key, other.value)]
    /\ last' = Returned("add", L, other, FrameRef(Len(frames) + 1))
    /\ UNCHANGED <<maps, trackProps, trackCovs>>

\* FeatureBranch without the len(result.tracks) != 0 test: [-1] of an empty
\* list raises IndexError
FeatureBranchUnguarded(tp, m, k, v) ==
    IF Len(m) # 0
    THEN [status |-> "ok", trackProps |-> [tp EXCEPT ![m[Len(m)].track] = SetItem(@, k, v)]]
    ELSE [status |-> "IndexError", trackProps |-> tp]

\* FeatureBranch writing to a copy of the last track: the Track object the
\* frames refer to keeps its properties
FeatureBranchOnCopy(tp, m, k, v) == [status |-> "ok", trackProps |-> tp]

\* Frame + Feature: the last track's properties, when there is a track.
FeatureBranch(tp, m, k, v) ==
    IF Len(m) # 0
    THEN [status |-> "ok", trackProps |-> [tp EXCEPT ![LastTrack(m)] = SetItem(@, k, v)]]
    ELSE [status |-> "ok", trackProps |-> tp]

AddFeatureOperand(L, other) ==
    LET result == Copy(L)
        out == FeatureBranch(trackProps, maps[result.tracks], other.key, other.value)
    IN /\ trackProps' = out.trackProps
       /\ IF out.status = "ok"
          THEN /\ Len(frames) < MaxFrames
               /\ frames' = Append(frames, result)
               /\ last' = Returned("add", L, other, FrameRef(Len(frames) + 1))
          ELSE /\ last' = Raised("add", L, other, out.status)
               /\ UNCHANGED frames
       /\ UNCHANGED <<dicts, maps, trackCovs>>

\* Frame + Coverage: last.append_coverage(other)
AddCoverageOperand(L, other) ==
    /\ Len(frames) < MaxFrames
    /\ LET result == Copy(L)
           m == maps[result.tracks]
       IN /\ frames' = Append(frames, result)
          /\ IF Len(m) # 0
             THEN /\ Len(trackCovs[LastTrack(m)]) < MaxCovs
                  /\ trackCovs' = [trackCovs EXCEPT ![LastTrack(m)] = AppendCoverage(@, other.cov)]
             ELSE UNCHANGED trackCovs
    /\ last' = Returned("add", L, other, FrameRef(Len(frames) + 1))
    /\ UNCHANGED <<dicts, maps, trackProps>>

\* CoverageStackBranch piling only the first coverage of the stack
CoverageStackBranchFirst(covs, other) == PileCoverages(covs, <<other.coverages[1]>>)

\* Frame + CoverageStack: last.pile_coverages(other.coverages, pos='top')
CoverageStackBranch(covs, other) == PileCoverages(covs, other.coverages)

AddCoverageStackOperand(L, other) ==
    /\ Len(frames) < MaxFrames
    /\ LET result == Copy(L)
           m == maps[result.tracks]
       IN /\ frames' = Append(frames, result)
          /\ IF Len(m) # 0
             THEN /\ Len(trackCovs[LastTrack(m)]) + Len(other.coverages) <= MaxCovs
                  /\ trackCovs' = [trackCovs EXCEPT
                                     ![LastTrack(m)] = CoverageStackBranch(@, other)]
             ELSE UNCHANGED trackCovs
    /\ last' = Returned("add", L, other, FrameRef(Len(frames) + 1))
    /\ UNCHANGED <<dicts, maps, trackProps>>

\* WidgetsPanelBranch with the two keyword arguments exchanged
WidgetsPanelBranchSwapped(L, other) ==
    [type |-> "Browser", frame |-> L, reference_genome |-> other.type,
     widgets_box |-> other.ref]

\* Frame + WidgetsPanel: Browser(self, reference_genome=other.ref, widgets_box=other.type)
WidgetsPanelBranch(L, other) ==
    [type |-> "Browser", frame |-> L, reference_genome |-> other.ref,
     widgets_box |-> other.type]

AddWidgetsPanelOperand(L, other) ==
    /\ last' = Returned("add", L, other, WidgetsPanelBranch(L, other))
    /\ UNCHANGED <<frames, dicts, maps, trackProps, trackCovs>>

\* AddUnsupportedOperand returning the copy instead of raising
AddUnsupportedReturnsResult(L, other) ==
    /\ Len(frames) < MaxFrames
    /\ frames' = Append(frames, Copy(L))
    /\ last' = [op |-> "add", left |-> L, arg |-> other, status |-> "ok",
                ret |-> [type |-> "Frame", id |-> Len(frames) + 1]]
    /\ UNCHANGED <<dicts, maps, trackProps, trackCovs>>

\* anything else: raise TypeError(op_err_msg(self, other))
AddUnsupportedOperand(L, other) ==
    /\ last' = Raised("add", L, other, "TypeError")
    /\ UNCHANGED <<frames, dicts, maps, trackProps, trackCovs>>

AddOperands ==
    TrackOperands \cup {[kind |-> "Frame", frame |-> f] : f \in FrameIds}
    \cup FrameFeatureOperands \cup FeatureOperands \cup CoverageOperands
    \cup CoverageStackOperands \cup WidgetsPanelOperands \cup OtherOperands

\* FrameBase.__add__(self, other)
Add(L, other) ==
    LET branch == AddDispatch(other.kind)
    IN \/ branch = "Track" /\ AddTrackOperand(L, other)
       \/ branch = "Frame" /\ AddFrameOperand(L, other)
       \/ branch = "FrameFeature" /\ AddFrameFeatureOperand(L, other)
       \/ branch = "Feature" /\ AddFeatureOperand(L, other)
       \/ branch = "Coverage" /\ AddCoverageOperand(L, other)
       \/ branch = "CoverageStack" /\ AddCoverageStackOperand(L, other)
       \/ branch = "WidgetsPanel" /\ AddWidgetsPanelOperand(L, other)
       \/ branch = "TypeError" /\ AddUnsupportedOperand(L, other)

\* ------------------------------------------------------------------ helpers
\* add_feature_to_tracks reaching the last track only
AddFeatureToLastOnly(tp, ts, k, v) ==
    IF ts = <<>> THEN tp ELSE [tp EXCEPT ![ts[Len(ts)]] = SetItem(@, k, v)]

\* add_feature_to_tracks: every track of the mapping gets properties[key] = value
RECURSIVE AddFeatureToTracks(_, _, _, _)
AddFeatureToTracks(tp, ts, k, v) ==
    IF ts = <<>> THEN tp
    ELSE AddFeatureToTracks([tp EXCEPT ![Head(ts)] = SetItem(@, k, v)], Tail(ts), k, v)

\* add_cov_to_tracks: every track of the mapping gets append_coverage(cov)
RECURSIVE AddCovToTracks(_, _, _)
AddCovToTracks(tc, ts, c) ==
    IF ts = <<>> THEN tc
    ELSE AddCovToTracks([tc EXCEPT ![Head(ts)] = AppendCoverage(@, c)], Tail(ts), c)

\* ------------------------------------------------------------------ __mul__
\* MulDispatch taking a FrameFeature for a Feature
MulDispatchSubclass(kind) ==
    CASE kind = "Coverage" -> "Coverage"
      [] kind \in {"Feature", "FrameFeature"} -> "Feature"
      [] OTHER -> "TypeError"

\* The isinstance chain of __mul__.
MulDispatch(kind) ==
    CASE kind = "Coverage" -> "Coverage"
      [] kind = "Feature" -> "Feature"
      [] OTHER -> "TypeError"

MulCoverageOperand(L, other) ==
    /\ Len(frames) < MaxFrames
    /\ LET result == Copy(L)
           tc == AddCovToTracks(trackCovs, TrackValues(maps[result.tracks]), other.cov)
       IN /\ \A t \in Tracks : Len(tc[t]) <= MaxCovs
          /\ frames' = Append(frames, result)
          /\ trackCovs' = tc
    /\ last' = Returned("mul", L, other, FrameRef(Len(frames) + 1))
    /\ UNCHANGED <<dicts, maps, trackProps>>

MulFeatureOperand(L, other) ==
    /\ Len(frames) < MaxFrames
    /\ LET result == Copy(L)
       IN /\ frames' = Append(frames, result)
          /\ trackProps' = AddFeatureToTracks(trackProps, TrackValues(maps[result.tracks]),
                                              other.key, other.value)
    /\ last' = Returned("mul", L, other, FrameRef(Len(frames) + 1))
    /\ UNCHANGED <<dicts, maps, trackCovs>>

\* MulUnsupportedOperand taking a Track the way + does before it raises
MulUnsupportedAppendsTrack(L, other) ==
    /\ last' = Raised("mul", L, other, "TypeError")
    /\ IF other.kind = "Track" /\ Len(TracksOf(L)) < MaxTracks
       THEN maps' = [maps EXCEPT ![frames[L].tracks] = AddTrack(@, other.track)]
       ELSE UNCHANGED maps
    /\ UNCHANGED <<frames, dicts, trackProps, trackCovs>>

\* anything else: raise TypeError(op_err_msg(self, other, op='*'))
MulUnsupportedOperand(L, other) ==
    /\ last' = Raised("mul", L, other, "TypeError")
    /\ UNCHANGED <<frames, dicts, maps, trackProps, trackCovs>>

\* FrameBase.__mul__(self, other)
Mul(L, other) ==
    LET branch == MulDispatch(other.kind)
    IN \/ branch = "Coverage" /\ MulCoverageOperand(L, other)
       \/ branch = "Feature" /\ MulFeatureOperand(L, other)
       \/ branch = "TypeError" /\ MulUnsupportedOperand(L, other)

\* ------------------------------------------------------------------ goto
Goto(L, gr) ==
    /\ LET range == IF gr.type = "GenomeRange" THEN gr ELSE ParseRange(gr)
       IN frames' = [frames EXCEPT ![L].current_range = range]
    /\ last' = Returned("goto", L, [kind |-> gr.type, range |-> gr], NoneValue)
    /\ UNCHANGED <<dicts, maps, trackProps, trackCovs>>

\* ------------------------------------------------------------------ fetch_data
\* hasattr(track, 'fetch_data') and what track.fetch_data(genome_range) returns:
\* the external capability of a track, one opaque record per call.
HasFetch(t) == t = "bigwig"
TrackFetch(t, r) == <<[track |-> t, range |-> r]>>

\* ODUpdate putting a new key in front
ODUpdateFront(od, name, data) == <<[name |-> name, data |-> data]>> \o od

\* tracks_data.update([(name, data)]) on an OrderedDict: a new key goes to the
\* end, an existing key keeps its place and takes the new value.
ODUpdate(od, name, data) ==
    IF \E i \in 1..Len(od) : od[i].name = name
    THEN [i \in 1..Len(od) |-> IF od[i].name = name THEN [name |-> name, data |-> data]
                                ELSE od[i]]
    ELSE Append(od, [name |-> name, data |-> data])

\* the body of the loop: the data of one track
TrackData(t, r) == IF HasFetch(t) THEN TrackFetch(t, r) ELSE <<>>

\* for name, track in self.tracks.items(): ...
RECURSIVE FetchTracks(_, _, _)
FetchTracks(od, items, r) ==
    IF items = <<>> THEN od
    ELSE FetchTracks(ODUpdate(od, Head(items).name, TrackData(Head(items).track, r)),
                     Tail(items), r)

\* ResolveRange preferring the frame's current_range to the argument
ResolveRangeCurrentFirst(f, gr) ==
    IF frames[f].current_range.type # "None" THEN frames[f].current_range ELSE gr

\* the range fetch_data works with: the argument, else current_range
ResolveRange(f, gr) == IF gr.type = "None" THEN frames[f].current_range ELSE gr

\* FetchData keeping the range it was given as the frame's current_range
FetchDataStoresRange(L, gr) ==
    /\ LET given == ResolveRange(L, gr)
       IN IF given.type = "None"
          THEN /\ last' = Raised("fetch_data", L, [kind |-> gr.type], "RuntimeError")
               /\ UNCHANGED frames
          ELSE LET range == IF given.type = "str" THEN ParseRange(given) ELSE given
               IN /\ last' = Returned("fetch_data", L, [kind |-> gr.type, range |-> gr],
                                      [type |-> "OrderedDict",
                                       items |-> FetchTracks(<<>>, TracksOf(L), range)])
                  /\ frames' = [frames EXCEPT ![L].current_range = range]
    /\ UNCHANGED <<dicts, maps, trackProps, trackCovs>>

\* FrameBase.fetch_data(self, genome_range=None)
FetchData(L, gr) ==
    /\ LET given == ResolveRange(L, gr)
       IN IF given.type = "None"
          THEN last' = Raised("fetch_data", L, [kind |-> gr.type], "RuntimeError")
          ELSE LET range == IF given.type = "str" THEN ParseRange(given) ELSE given
               IN last' = Returned("fetch_data", L, [kind |-> gr.type, range |-> gr],
                                   [type |-> "OrderedDict",
                                    items |-> FetchTracks(<<>>, TracksOf(L), range)])
    /\ UNCHANGED <<frames, dicts, maps, trackProps, trackCovs>>

\* ------------------------------------------------------------------ set_tracks_min_max
\* isinstance(track, BedGraph) or isinstance(track, BigWig)
IsSetable(t) == t = "bigwig"

RECURSIVE SetAllMinMax(_, _, _, _)
SetAllMinMax(tp, ts, mn, mx) ==
    IF ts = <<>> THEN tp
    ELSE SetAllMinMax(
           IF IsSetable(Head(ts))
           THEN [tp EXCEPT ![Head(ts)] = SetItem(SetItem(@, "min_value", mn), "max_value", mx)]
           ELSE tp,
           Tail(ts), mn, mx)

\* SetNamedMinMax without the 'min_value' in track.properties test
SetNamedMinMaxUnguarded(tp, m, mn, mx, name) ==
    IF ~(\E i \in 1..Len(m) : m[i].name = name) THEN tp
    ELSE LET track == m[CHOOSE i \in 1..Len(m) : m[i].name = name].track
         IN [tp EXCEPT ![track] = SetItem(SetItem(@, "min_value", mn), "max_value", mx)]

\* the branch for a given name
SetNamedMinMax(tp, m, mn, mx, name) ==
    IF ~(\E i \in 1..Len(m) : m[i].name = name) THEN tp
    ELSE LET track == m[CHOOSE i \in 1..Len(m) : m[i].name = name].track
         IN IF "min_value" \in DOMAIN tp[track]
            THEN [tp EXCEPT ![track] = SetItem(SetItem(@, "min_value", mn), "max_value", mx)]
            ELSE tp

SetTracksMinMax(L, mn, mx, name) ==
    /\ trackProps' = IF name.type = "None"
                     THEN SetAllMinMax(trackProps, TrackValues(TracksOf(L)), mn, mx)
                     ELSE SetNamedMinMax(trackProps, TracksOf(L), mn, mx, name.name)
    /\ last' = Returned("set_tracks_min_max", L, [kind |-> name.type, name |-> name], NoneValue)
    /\ UNCHANGED <<frames, dicts, maps, trackCovs>>

\* ------------------------------------------------------------------ properties
\* frame.properties[key] = value, written by a caller through the public
\* attribute that __init__ sets.
SetProperty(f, k, v) ==
    /\ dicts' = [dicts EXCEPT ![frames[f].properties] = SetItem(@, k, v)]
    /\ last' = Returned("setitem", f, [kind |-> "item", key |-> k, value |-> v], NoneValue)
    /\ UNCHANGED <<frames, maps, trackProps, trackCovs>>

\* frame.add_track(track), called by a caller on the frame itself.
AddTrackCall(f, t) ==
    /\ Len(TracksOf(f)) < MaxTracks
    /\ maps' = [maps EXCEPT ![frames[f].tracks] = AddTrack(@, t)]
    /\ last' = Returned("add_track", f, [kind |-> "Track", track |-> t], NoneValue)
    /\ UNCHANGED <<frames, dicts, trackProps, trackCovs>>

\* ------------------------------------------------------------------ next
RangeArgs == GenomeRanges \cup RangeStrings
NameArgs == {NoneValue} \cup {[type |-> "name", name |-> n] : n \in 1..MaxTracks}

\* The composition algebra: Frame(), frame + other, frame * other.
Next ==
    \/ \E gr \in {NoneValue} : NewFrame(gr)
    \/ \E L \in FrameIds : \E other \in AddOperands : Add(L, other)
    \/ \E L \in FrameIds : \E other \in AddOperands : Mul(L, other)

Spec == Init /\ [][Next]_vars

\* The data fetch pipeline: frames with any genome_range, tracks appended,
\* goto and fetch_data.
NextFetch ==
    \/ \E gr \in {NoneValue} \cup RangeArgs : NewFrame(gr)
    \/ \E L \in FrameIds : \E other \in TrackOperands : AddTrackOperand(L, other)
    \/ \E L \in FrameIds : \E gr \in RangeArgs : Goto(L, gr)
    \/ \E L \in FrameIds : \E gr \in {NoneValue} \cup RangeArgs : FetchData(L, gr)

SpecFetch == Init /\ [][NextFetch]_vars

\* Callers writing to frame.properties between combinations.
NextProperties ==
    \/ \E gr \in {NoneValue} : NewFrame(gr)
    \/ \E L \in FrameIds : \E other \in TrackOperands \cup FrameFeatureOperands : Add(L, other)
    \/ \E f \in FrameIds : \E k \in FrameFeatureKeys : \E v \in Values : SetProperty(f, k, v)

SpecProperties == Init /\ [][NextProperties]_vars

\* Merging frames: frame1 = Frame() and frame2 = Frame() of the doctest,
\* filled by add_track, then combined with tracks, with each other and with
\* the frames that come out.
FrameOperands == {[kind |-> "Frame", frame |-> f] : f \in FrameIds}
Constructed == {"frame1", "frame2"}
\* The frames that Frame() made: the others are results of +, which share
\* the mapping and the properties of their left operand.
ConstructedIds == {f \in FrameIds : \A g \in 1..(f - 1) : frames[g].tracks # frames[f].tracks}

NextMerge ==
    \/ \E gr \in {NoneValue} : Len(maps) < Cardinality(Constructed) /\ NewFrame(gr)
    \/ \E f \in ConstructedIds : \E t \in Tracks : AddTrackCall(f, t)
    \/ \E L \in FrameIds : \E other \in TrackOperands \cup FrameOperands : Add(L, other)

SpecMerge == Init /\ [][NextMerge]_vars

\* The same two frames, given properties too, and merged.
NextMergeProperties ==
    \/ \E gr \in {NoneValue} : Len(maps) < Cardinality(Constructed) /\ NewFrame(gr)
    \/ \E f \in ConstructedIds : \E t \in Tracks : AddTrackCall(f, t)
    \/ \E f \in ConstructedIds : \E k \in FrameFeatureKeys : \E v \in Values : SetProperty(f, k, v)
    \/ \E L \in FrameIds : \E other \in FrameOperands : Add(L, other)

SpecMergeProperties == Init /\ [][NextMergeProperties]_vars

\* Calls that fail, on frames with tracks that carry properties and
\* coverages: an operand of no supported kind, a fetch without a range.
FailingOperands == TrackOperands \cup FeatureOperands \cup CoverageOperands \cup OtherOperands

NextFailing ==
    \/ \E gr \in {NoneValue} \cup GenomeRanges : NewFrame(gr)
    \/ \E L \in FrameIds : \E other \in FailingOperands : Add(L, other)
    \/ \E L \in FrameIds : \E other \in FailingOperands : Mul(L, other)
    \/ \E L \in FrameIds : \E gr \in {NoneValue} \cup GenomeRanges : FetchData(L, gr)

SpecFailing == Init /\ [][NextFailing]_vars

\* The min/max helper on frames built by the algebra.
NextMinMax ==
    \/ \E gr \in {NoneValue} : NewFrame(gr)
    \/ \E L \in FrameIds : \E other \in TrackOperands \cup FeatureOperands : Add(L, other)
    \/ \E L \in FrameIds : \E name \in NameArgs : SetTracksMinMax(L, 0 - 10, 10, name)

SpecMinMax == Init /\ [][NextMinMax]_vars

\* ------------------------------------------------------------------ claims
\* The step just taken, as recorded by the call it made.
AddStep(kind) == last'.op = "add" /\ last'.arg.kind = kind
MulStep(kind) == last'.op = "mul" /\ last'.arg.kind = kind
AfterAdd(kind) == last.op = "add" /\ last.arg.kind = kind
AfterMul(kind) == last.op = "mul" /\ last.arg.kind = kind

\* C1: every frame + track returns a Frame whose tracks are the left frame's
\* tracks, in their order, followed by the appended track; by induction a
\* chain of N appends leaves the tracks in append order behind the ones that
\* were there.
C1_OrderPreservation ==
    [][AddStep("Track") =>
         /\ last'.status = "ok"
         /\ last'.ret.type = "Frame"
         /\ TrackValues(maps'[frames'[last'.ret.id].tracks])
              = Append(TrackValues(TracksOf(last'.left)), last'.arg.track)
         /\ TrackNames(maps'[frames'[last'.ret.id].tracks])
              = Append(TrackNames(TracksOf(last'.left)), Len(TracksOf(last'.left)) + 1)]_vars

\* Three tracks appended one by one to Frame(): bigwig, xaxis, bigwig.
C1_Witness ==
    /\ AfterAdd("Track")
    /\ last.status = "ok"
    /\ TrackValues(TracksOf(last.ret.id)) = <<"bigwig", "xaxis", "bigwig">>

\* C2: frame + other leaves the track mapping and the properties mapping of
\* the left operand as they were, whatever the operand.
C2_LeftOperandUnchanged ==
    [][(last'.op = "add" /\ last'.status = "ok") =>
         /\ maps'[frames'[last'.left].tracks] = TracksOf(last'.left)
         /\ dicts'[frames'[last'.left].properties] = PropertiesOf(last'.left)]_vars

\* C3: after result = L + track, a write to result.properties leaves
\* L.properties as it was.
C3_CopyIsolation ==
    [][(/\ AfterAdd("Track")
        /\ last.status = "ok"
        /\ last'.op = "setitem"
        /\ last'.left = last.ret.id) =>
         dicts'[frames'[last.left].properties] = PropertiesOf(last.left)]_vars

\* C4 as stated: frame + Feature sets the key on the last track and leaves the
\* property map of every track before the last as it was.
C4_TracksBeforeLastUnchanged ==
    [][(AddStep("Feature") /\ Len(TracksOf(last'.left)) >= 1) =>
         LET m == TracksOf(last'.left)
         IN /\ last'.status = "ok"
            /\ trackProps'[m[Len(m)].track][last'.arg.key] = last'.arg.value
            /\ \A i \in 1..(Len(m) - 1) :
                 trackProps'[m[i].track] = trackProps[m[i].track]]_vars

\* C4 amended: frame + Feature sets the key on the last track object and
\* leaves the property map of every other Track object as it was; an earlier
\* entry of the mapping that is the same Track object as the last one changes
\* with it.
C4_LastTrackTargeting ==
    [][(AddStep("Feature") /\ Len(TracksOf(last'.left)) >= 1) =>
         LET m == TracksOf(last'.left)
         IN /\ last'.status = "ok"
            /\ last'.ret.type = "Frame"
            /\ trackProps' = [trackProps EXCEPT ![m[Len(m)].track] =
                                SetItem(@, last'.arg.key, last'.arg.value)]]_vars

\* xaxis then bigwig, and a color applied: only bigwig carries it.
C4_Witness ==
    /\ AfterAdd("Feature")
    /\ last.status = "ok"
    /\ TrackValues(TracksOf(last.ret.id)) = <<"xaxis", "bigwig">>
    /\ "color" \in DOMAIN trackProps["bigwig"]
    /\ "color" \notin DOMAIN trackProps["xaxis"]

\* C5: frame + Feature on a frame with no track raises nothing and returns a
\* Frame with no track and the properties the frame had; no track object and
\* no properties dict changes.
C5_ZeroTrackNoOp ==
    [][\A L \in FrameIds : \A other \in FeatureOperands :
         (Len(TracksOf(L)) = 0 /\ Add(L, other)) =>
           /\ last'.status = "ok"
           /\ last'.ret.type = "Frame"
           /\ Len(maps'[frames'[last'.ret.id].tracks]) = 0
           /\ dicts'[frames'[last'.ret.id].properties] = PropertiesOf(L)
           /\ UNCHANGED <<dicts, maps, trackProps, trackCovs>>]_vars

\* A color added to a frame that got a title and no track.
C5_Witness ==
    /\ AfterAdd("Feature")
    /\ last.status = "ok"
    /\ TracksOf(last.ret.id) = <<>>
    /\ "title" \in DOMAIN PropertiesOf(last.ret.id)

\* a track of the mapping, before the last and another object than the last,
\* that does not carry key = value yet
FreshBeforeLast(m, k, v) ==
    {i \in 1..(Len(m) - 1) :
       /\ m[i].track # m[Len(m)].track
       /\ (k \notin DOMAIN trackProps[m[i].track] \/ trackProps[m[i].track][k] # v)}

\* C6: frame * Feature sets the key on every track of the frame; frame +
\* Feature on a frame of two or more tracks leaves a fresh track before the
\* last without it, so its outcome differs from what * yields from that state.
C6_BulkVsTargeted ==
    [][/\ MulStep("Feature") =>
            /\ last'.status = "ok"
            /\ last'.ret.type = "Frame"
            /\ \A i \in 1..Len(TracksOf(last'.left)) :
                 /\ last'.arg.key \in DOMAIN trackProps'[TracksOf(last'.left)[i].track]
                 /\ trackProps'[TracksOf(last'.left)[i].track][last'.arg.key] = last'.arg.value
       /\ (AddStep("Feature") /\ Len(TracksOf(last'.left)) >= 2) =>
            LET m == TracksOf(last'.left)
                k == last'.arg.key
                v == last'.arg.value
            IN \A i \in FreshBeforeLast(m, k, v) :
                 /\ k \notin DOMAIN trackProps'[m[i].track] \/ trackProps'[m[i].track][k] # v
                 /\ trackProps' # AddFeatureToTracks(trackProps, TrackValues(m), k, v)]_vars

\* A color scaled over a frame of xaxis and bigwig: both carry it.
C6_Witness ==
    /\ AfterMul("Feature")
    /\ last.status = "ok"
    /\ TrackValues(TracksOf(last.ret.id)) = <<"xaxis", "bigwig">>
    /\ \A t \in Tracks : /\ "color" \in DOMAIN trackProps[t]
                         /\ trackProps[t]["color"] = last.arg.value

\* C7: frame + WidgetsPanel returns a Browser, not a Frame, that holds the
\* frame of the chain, with its tracks in order and its properties, and the
\* panel's reference genome and widgets box.
C7_TerminalOperand ==
    AfterAdd("WidgetsPanel") =>
      /\ last.status = "ok"
      /\ last.ret.type = "Browser"
      /\ last.ret.frame \in FrameIds
      /\ TracksOf(last.ret.frame) = TracksOf(last.left)
      /\ PropertiesOf(last.ret.frame) = PropertiesOf(last.left)
      /\ last.ret.reference_genome = last.arg.ref
      /\ last.ret.widgets_box = last.arg.type

\* A Browser over a titled frame of two tracks.
C7_Witness ==
    /\ AfterAdd("WidgetsPanel")
    /\ last.ret.type = "Browser"
    /\ Len(TracksOf(last.ret.frame)) = 2
    /\ "title" \in DOMAIN PropertiesOf(last.ret.frame)

\* the range fetch_data hands to the tracks, for the call kept in `last`
FetchedRange ==
    LET given == IF last.arg.kind = "None" THEN frames[last.left].current_range
                 ELSE last.arg.range
    IN IF given.type = "str" THEN ParseRange(given) ELSE given

\* C8: fetch_data returns one entry per track of the frame, in the order of
\* the track mapping and under the track's name: what the track's fetch
\* returns for the range, or an empty sequence for a track without fetch.
C8_FetchOrderingAndDefaults ==
    (last.op = "fetch_data" /\ last.status = "ok") =>
      LET m == TracksOf(last.left)
          d == last.ret.items
      IN /\ Len(d) = Len(m)
         /\ \A i \in 1..Len(m) :
              /\ d[i].name = m[i].name
              /\ d[i].data = IF HasFetch(m[i].track)
                             THEN TrackFetch(m[i].track, FetchedRange)
                             ELSE <<>>

\* Tracks [xaxis (no fetch), bigwig (fetch)]: {track_1: [], track_2: [r1]}.
C8_Witness ==
    /\ last.op = "fetch_data"
    /\ last.status = "ok"
    /\ TrackValues(TracksOf(last.left)) = <<"xaxis", "bigwig">>
    /\ last.ret.items = <<[name |-> 1, data |-> <<>>],
                          [name |-> 2, data |-> TrackFetch("bigwig", FetchedRange)]>>

SupportedKinds ==
    {"Track", "Frame", "FrameFeature", "Feature", "Coverage", "CoverageStack", "WidgetsPanel"}

\* C9: frame + other with other of no supported kind raises TypeError and
\* returns nothing; no frame object is made visible by it.
C9_UnsupportedOperand ==
    [][(last'.op = "add" /\ last'.arg.kind \notin SupportedKinds) =>
         /\ last'.status = "TypeError"
         /\ last'.ret = NoneValue
         /\ UNCHANGED frames]_vars

\* frame + 1 on a frame with a track.
C9_Witness ==
    /\ AfterAdd("int")
    /\ last.status = "TypeError"
    /\ \E f \in FrameIds : Len(TracksOf(f)) >= 1

C11_UniqueTrackNames ==
    [][\A i \in DOMAIN maps' :
          /\ \A a, b \in DOMAIN maps'[i] :
                maps'[i][a].name = maps'[i][b].name => a = b
          /\ i \in DOMAIN maps =>
                /\ Len(maps[i]) <= Len(maps'[i])
                /\ SubSeq(maps'[i], 1, Len(maps[i])) = maps[i]]_vars

\* Two frames that both hold the track named 1 have been merged, and the
\* result holds the same Track object twice.
C11_Witness ==
    /\ last.op = "add" /\ last.status = "ok" /\ last.arg.kind = "Frame"
    /\ Len(TracksOf(last.arg.frame)) >= 1
    /\ Len(TracksOf(last.ret.id)) > Len(TracksOf(last.arg.frame))
    /\ \E a, b \in DOMAIN TracksOf(last.ret.id) :
          a # b /\ TracksOf(last.ret.id)[a].track = TracksOf(last.ret.id)[b].track

\* ------------------------------------------------------------------ C12
\* What a merge of L with the frame R has to give: a returned frame whose
\* tracks are L's followed by R's and whose properties are L's overwritten
\* by R's, the values on the right taken from before the step.
MergeGivesBoth(L, R) ==
    /\ last'.status = "ok"
    /\ last'.ret.type = "Frame"
    /\ LET res == frames'[last'.ret.id]
           lp == PropertiesOf(L)
           rp == PropertiesOf(R)
       IN /\ TrackValues(maps'[res.tracks])
               = TrackValues(TracksOf(L)) \o TrackValues(TracksOf(R))
          /\ DOMAIN dicts'[res.properties] = (DOMAIN lp) \cup (DOMAIN rp)
          /\ \A k \in DOMAIN dicts'[res.properties] :
                dicts'[res.properties][k] = IF k \in DOMAIN rp THEN rp[k] ELSE lp[k]

\* C12: frame + frame returns a frame with the left frame's tracks in order
\* followed by the right frame's tracks in order, and with the left frame's
\* properties merged with the right frame's, the right one winning; for
\* every pair of frames, the right one being the left one included.
C12_FrameMerge ==
    [][\A L, R \in FrameIds :
          Add(L, [kind |-> "Frame", frame |-> R]) => MergeGivesBoth(L, R)]_vars

\* The same for the pairs of frames that do not refer to one track mapping.
C12_MergeOfSeparateFrames ==
    [][\A L, R \in FrameIds :
          (frames[L].tracks # frames[R].tracks /\ Add(L, [kind |-> "Frame", frame |-> R]))
            => MergeGivesBoth(L, R)]_vars

\* ------------------------------------------------------------------ C13
\* C13: fetch_data hands every fetching track the range it was called with
\* (a string parsed to its GenomeRange); without an argument, the frame's
\* current_range; and without an argument on a frame whose current_range is
\* None it raises RuntimeError and returns nothing.
C13_RangeResolution ==
    [][last'.op = "fetch_data" =>
         IF last'.status = "ok"
         THEN LET L == last'.left
                  gr == last'.arg.range
                  cur == frames[L].current_range
                  used == CASE gr.type = "None" -> cur
                            [] gr.type = "str" -> ParseRange(gr)
                            [] OTHER -> gr
              IN /\ used.type = "GenomeRange"
                 /\ \A i \in DOMAIN TracksOf(L) :
                       HasFetch(TracksOf(L)[i].track) =>
                         last'.ret.items[i].data
                           = <<[track |-> TracksOf(L)[i].track, range |-> used]>>
         ELSE /\ last'.status = "RuntimeError"
              /\ last'.ret = NoneValue
              /\ last'.arg.kind = "None"
              /\ \E f \in FrameIds : frames[f].current_range = NoneValue]_vars

\* fetch_data() without argument on a frame that holds a fetching track and
\* whose current_range is chrX:3000000-5000000: the track was asked for it.
C13_Witness ==
    /\ last.op = "fetch_data" /\ last.status = "ok" /\ last.arg.kind = "None"
    /\ frames[last.left].current_range.type = "GenomeRange"
    /\ frames[last.left].current_range.chrom = "chrX"
    /\ \E i \in DOMAIN last.ret.items :
          last.ret.items[i].data
            = <<[track |-> "bigwig", range |-> frames[last.left].current_range]>>

\* ------------------------------------------------------------------ C14
\* the coverages an overlay operand brings: one Coverage, or all of a stack
Brought(other) == IF other.kind = "Coverage" THEN <<other.cov>> ELSE other.coverages

\* C14: frame + Coverage and frame + CoverageStack return a Frame; on a frame
\* with tracks the coverages of the last track grow by the coverage, or by
\* all coverages of the stack, and the coverages of every earlier track of
\* the mapping stay as they were; on a frame without tracks nothing changes.
C14_EarlierTracksUnchanged ==
    [][(AddStep("Coverage") \/ AddStep("CoverageStack")) =>
            LET m == TracksOf(last'.left)
                other == last'.arg
            IN /\ last'.status = "ok"
               /\ last'.ret.type = "Frame"
               /\ IF Len(m) = 0
                  THEN UNCHANGED <<dicts, maps, trackProps, trackCovs>>
                  ELSE /\ trackCovs'[m[Len(m)].track]
                            = trackCovs[m[Len(m)].track] \o Brought(other)
                       /\ \A i \in 1..(Len(m) - 1) :
                            trackCovs'[m[i].track] = trackCovs[m[i].track]]_vars

\* C14 amended: the same, with "every earlier track" read as every Track
\* object other than the last track's: an earlier entry of the mapping that
\* is the same Track object as the last one gets the coverages with it.
C14_OverlayLastTrackTargeting ==
    [][(AddStep("Coverage") \/ AddStep("CoverageStack")) =>
            LET m == TracksOf(last'.left)
                other == last'.arg
            IN /\ last'.status = "ok"
               /\ last'.ret.type = "Frame"
               /\ UNCHANGED <<dicts, maps, trackProps>>
               /\ IF Len(m) = 0
                  THEN UNCHANGED trackCovs
                  ELSE trackCovs' = [trackCovs EXCEPT ![m[Len(m)].track] =
                                       @ \o Brought(other)]]_vars

\* xaxis then bigwig, and a stack of two piled: bigwig alone carries both.
C14_Witness ==
    /\ AfterAdd("CoverageStack")
    /\ last.status = "ok"
    /\ TrackValues(TracksOf(last.ret.id)) = <<"xaxis", "bigwig">>
    /\ trackCovs["bigwig"] = last.arg.coverages
    /\ trackCovs["xaxis"] = <<>>

\* ------------------------------------------------------------------ C15
\* C15: frame + FrameFeature(key, value) returns a Frame whose properties
\* hold value under key and whose tracks are the frame's tracks, names and
\* order as before; no track's properties or coverages change, the last
\* track's included, whether the frame has tracks or not.
C15_FrameFeatureTouchesNoTrack ==
    [][AddStep("FrameFeature") =>
         LET L == last'.left
             other == last'.arg
         IN /\ last'.status = "ok"
            /\ last'.ret.type = "Frame"
            /\ other.key \in DOMAIN dicts'[frames'[last'.ret.id].properties]
            /\ dicts'[frames'[last'.ret.id].properties][other.key] = other.value
            /\ maps'[frames'[last'.ret.id].tracks] = TracksOf(L)
            /\ UNCHANGED <<maps, trackProps, trackCovs>>]_vars

\* A title given to a frame that holds a track which carries a color.
C15_Witness ==
    /\ AfterAdd("FrameFeature")
    /\ last.status = "ok"
    /\ Len(TracksOf(last.ret.id)) >= 1
    /\ PropertiesOf(last.ret.id)["title"] = last.arg.value
    /\ \E i \in DOMAIN TracksOf(last.ret.id) :
          /\ "color" \in DOMAIN trackProps[TracksOf(last.ret.id)[i].track]
          /\ "title" \notin DOMAIN trackProps[TracksOf(last.ret.id)[i].track]

\* ------------------------------------------------------------------ C16
\* the Track objects frame + other reaches (the last one) and the ones
\* frame * other reaches (all of them)
AddTargets(L) == IF Len(TracksOf(L)) = 0 THEN {} ELSE {TracksOf(L)[Len(TracksOf(L))].track}
MulTargets(L) == {TracksOf(L)[i].track : i \in DOMAIN TracksOf(L)}

\* what other left on the Track object t
Carries(t, other) ==
    IF other.kind = "Feature"
    THEN /\ other.key \in DOMAIN trackProps'[t]
         /\ trackProps'[t][other.key] = other.value
    ELSE /\ Len(trackCovs'[t]) > Len(trackCovs[t])
         /\ trackCovs'[t][Len(trackCovs'[t])] = other.cov

\* every frame that referred to one of the targets still refers to it at the
\* same place and reads there what other left; the returned frame holds the
\* very Track objects of L
SeenThroughEveryFrame(L, other, targets) ==
    /\ last'.status = "ok"
    /\ last'.ret.type = "Frame"
    /\ TrackValues(maps'[frames'[last'.ret.id].tracks]) = TrackValues(TracksOf(L))
    /\ \A f \in FrameIds : \A i \in DOMAIN TracksOf(f) :
          TracksOf(f)[i].track \in targets =>
            /\ maps'[frames'[f].tracks][i].track = TracksOf(f)[i].track
            /\ Carries(maps'[frames'[f].tracks][i].track, other)

\* C16: + and * do not copy Track objects: a Feature or a Coverage applied
\* through a frame (by + to its last track, by * to all its tracks) is read
\* through every other frame that refers to the same Track.
C16_SharedTrackState ==
    [][/\ (AddStep("Feature") \/ AddStep("Coverage")) =>
            SeenThroughEveryFrame(last'.left, last'.arg, AddTargets(last'.left))
       /\ (MulStep("Feature") \/ MulStep("Coverage")) =>
            SeenThroughEveryFrame(last'.left, last'.arg, MulTargets(last'.left))]_vars

\* A color applied through a derived frame; an older frame refers to the
\* track that carries it.
C16_Witness ==
    /\ AfterAdd("Feature")
    /\ last.status = "ok"
    /\ \E f \in FrameIds :
          /\ f < last.left
          /\ Len(TracksOf(f)) >= 1
          /\ TracksOf(f)[Len(TracksOf(f))].track
               = TracksOf(last.left)[Len(TracksOf(last.left))].track
          /\ trackProps[TracksOf(f)[Len(TracksOf(f))].track]["color"] = last.arg.value

\* ------------------------------------------------------------------ C17
\* C17: set_tracks_min_max(min, max, name) raises nothing and changes nothing
\* but track properties: none when the frame has no track of that name or
\* when the named track has no min_value; else min_value and max_value of
\* the named track, its other properties and every other track staying as
\* they were.
C17_NamedMinMax ==
    [][\A L \in FrameIds : \A name \in NameArgs \ {NoneValue} :
          SetTracksMinMax(L, 0 - 10, 10, name) =>
            LET m == TracksOf(L)
                at == {i \in DOMAIN m : m[i].name = name.name}
            IN /\ last'.status = "ok"
               /\ UNCHANGED <<frames, dicts, maps, trackCovs>>
               /\ IF at = {}
                  THEN UNCHANGED trackProps
                  ELSE LET t == m[CHOOSE i \in at : TRUE].track
                       IN IF "min_value" \notin DOMAIN trackProps[t]
                          THEN UNCHANGED trackProps
                          ELSE /\ trackProps'[t]["min_value"] = 0 - 10
                               /\ trackProps'[t]["max_value"] = 10
                               /\ DOMAIN trackProps'[t]
                                    = DOMAIN trackProps[t] \cup {"max_value"}
                               /\ \A k \in DOMAIN trackProps[t] \ {"min_value", "max_value"} :
                                    trackProps'[t][k] = trackProps[t][k]
                               /\ \A u \in Tracks \ {t} :
                                    trackProps'[u] = trackProps[u]]_vars

\* The second of xaxis, bigwig named: bigwig has the new limits and keeps
\* its color, xaxis has no limits.
C17_Witness ==
    /\ last.op = "set_tracks_min_max"
    /\ last.arg.kind = "name"
    /\ TrackValues(TracksOf(last.left)) = <<"xaxis", "bigwig">>
    /\ TracksOf(last.left)[2].name = last.arg.name.name
    /\ trackProps["bigwig"]["min_value"] = 0 - 10
    /\ "color" \in DOMAIN trackProps["bigwig"]
    /\ "min_value" \notin DOMAIN trackProps["xaxis"]

\* ------------------------------------------------------------------ C18
\* C18: a call that fails changes nothing: frame + other and frame * other
\* with an operand of no supported kind raise TypeError, fetch_data without
\* a range on a frame without current_range raises RuntimeError, and after
\* each the frames (tracks, properties, current_range), the mappings, the
\* dicts and every track's properties and coverages are what they were.
C18_FailureLeavesState ==
    [][/\ \A L \in FrameIds : \A other \in FailingOperands :
            /\ (other.kind \notin SupportedKinds /\ Add(L, other)) =>
                  /\ last'.status = "TypeError"
                  /\ UNCHANGED <<frames, dicts, maps, trackProps, trackCovs>>
            /\ (other.kind \notin {"Coverage", "Feature"} /\ Mul(L, other)) =>
                  /\ last'.status = "TypeError"
                  /\ UNCHANGED <<frames, dicts, maps, trackProps, trackCovs>>
       /\ \A L \in FrameIds :
            (frames[L].current_range = NoneValue /\ FetchData(L, NoneValue)) =>
              /\ last'.status = "RuntimeError"
              /\ UNCHANGED <<frames, dicts, maps, trackProps, trackCovs>>]_vars

\* frame * track refused on a frame whose track carries a color and a
\* coverage.
C18_Witness ==
    /\ AfterMul("Track")
    /\ last.status = "TypeError"
    /\ \E f \in FrameIds : \E i \in DOMAIN TracksOf(f) :
          /\ "color" \in DOMAIN trackProps[TracksOf(f)[i].track]
          /\ trackCovs[TracksOf(f)[i].track] # <<>>

\* ------------------------------------------------------------------ C19
\* C19: fetch_data, called without a range, with a range string or with a
\* GenomeRange, changes nothing of the frame: its current_range, its track
\* mapping and its properties are what they were, as is every other object;
\* the range passed does not become current_range.
C19_FetchReadOnly ==
    [][last'.op = "fetch_data" =>
         /\ \A L \in FrameIds :
               /\ frames'[L].current_range = frames[L].current_range
               /\ maps'[frames'[L].tracks] = TracksOf(L)
               /\ dicts'[frames'[L].properties] = PropertiesOf(L)
         /\ UNCHANGED <<frames, dicts, maps, trackProps, trackCovs>>]_vars

\* Data fetched for chr1:1000-2000 from a frame that holds tracks and stays
\* at chrX:3000000-5000000.
C19_Witness ==
    /\ last.op = "fetch_data" /\ last.status = "ok"
    /\ last.arg.kind = "GenomeRange"
    /\ last.arg.range.chrom = "chr1"
    /\ frames[last.left].current_range.type = "GenomeRange"
    /\ frames[last.left].current_range.chrom = "chrX"
    /\ Len(last.ret.items) >= 2

====
